---------------------------- MODULE Spec2Model ----------------------------
(***************************************************************************)
(* A model of two components of linkerd2-proxy:                            *)
(*                                                                         *)
(*  - linkerd/strategy/src/lib.rs: Client::watch, Client::daemon,          *)
(*    Client::init, Client::recover, Client::broadcast and Strategy::new.  *)
(*    A step of the model resumes the running task (the caller inside      *)
(*    watch(), or the spawned daemon) at the await point where it is       *)
(*    suspended and runs it to its next await point.  The RPC service, the *)
(*    response stream, the backoff timer and the readers of the watch      *)
(*    channel are the environment: they make an awaited result ready, and  *)
(*    the task takes it in a later step.  Each poll of a select_biased!    *)
(*    is one step: the arms are examined in the order written.             *)
(*                                                                         *)
(*  - linkerd/http-metrics/src/requests/mod.rs: the registry of shared     *)
(*    Metrics records as the test tests::expiry drives it.                 *)
(***************************************************************************)
EXTENDS Integers, Sequences, FiniteSets, TLC

(* ------------------------------ bounds -------------------------------- *)

\* ticks a retry schedule yields at most
MaxTicks == 2
\* responses the server sends on the streams of one watch at most
MaxRecv == 2
\* response streams of one daemon that fail or close while it is Streaming
MaxStreamFails == 2
\* reader handles of one channel alive at once
MaxReaders == 2
\* the registry's clock runs from 0 to MaxTime
MaxTime == 1
\* handles to one record held outside the registry at once
MaxHandles == 1
\* events recorded on one record at most
MaxEvents == 1

(* --------------------------- value domains ---------------------------- *)

\* SocketAddr values passed to watch(addr)
Addrs == {"10.0.0.1:80"}

NoAddr == "absent"

\* api::StrategyResponse { detect, target }, flattened: detect is "absent"
\* (None), "unset" (Some with protocol None), "Client" or "Opaque"; kind is
\* "absent" (target None), "unset" (Some with kind None), "Endpoint",
\* "Concrete" or "Logical"; eaddr is the Endpoint's address: "absent"
\* (addr None), "unset" (WeightedAddr.addr None), "invalid" (an address
\* SocketAddr::try_from rejects) or an address.
StrategyResponse(d, k, e, a) ==
    [detect |-> d, kind |-> k, eaddr |-> e, authority |-> a]

\* the responses the server sends in the client model
Responses ==
    { StrategyResponse("absent", "absent", NoAddr, ""),
      StrategyResponse("Opaque", "Concrete", NoAddr, "web.svc") }

\* Detect::{Client, Opaque}
DetectOf(rsp) ==
    IF rsp.detect \in {"absent", "unset"} THEN "Client" ELSE rsp.detect

\* Target::{Endpoint{addr}, Concrete{authority,..}, Logical{}}
Target(kind, addr, authority) ==
    [kind |-> kind, addr |-> addr, authority |-> authority]

\* variant of TargetOf: the address of an Endpoint target is taken as it is,
\* usable or not
TargetOf_Unchecked(addr, rsp) ==
    CASE rsp.kind = "Endpoint" -> Target("Endpoint", rsp.eaddr, "")
      [] rsp.kind = "Concrete" -> Target("Concrete", NoAddr, rsp.authority)
      [] rsp.kind = "Logical"  -> Target("Logical", NoAddr, "")
      [] OTHER                 -> Target("Endpoint", addr, "")

TargetOf(addr, rsp) ==
    CASE rsp.kind = "Endpoint" /\ rsp.eaddr \notin {"absent", "unset", "invalid"}
            -> Target("Endpoint", rsp.eaddr, "")
      [] rsp.kind = "Concrete" -> Target("Concrete", NoAddr, rsp.authority)
      [] rsp.kind = "Logical"  -> Target("Logical", NoAddr, "")
      [] OTHER                 -> Target("Endpoint", addr, "")

\* Strategy::new(addr, rsp)
StrategyNew(addr, rsp) ==
    [addr |-> addr, detect |-> DetectOf(rsp), target |-> TargetOf(addr, rsp)]

\* grpc::Status values that reach the recovery procedure
ServerClosed == "Ok: server closed stream"
Unavailable  == "Unavailable"
\* errors with which recover() ends
BackoffExhausted == "Ok: Backoff exhausted"
PolicyRejected   == "policy: not recoverable"
BackoffFailed    == "backoff: tick failed"
NoError == "none"

\* R::Backoff: a stream that yields `ticks` ticks and then either ends
\* (None) or fails (Err)
NoBackoff == [ticks |-> 0 - 1, fails |-> FALSE]
Backoffs  == [ticks : 0..MaxTicks, fails : BOOLEAN]

NoStrategy == StrategyNew(NoAddr, StrategyResponse("absent", "absent", NoAddr, ""))


(* ------------------------------- state -------------------------------- *)

VARIABLES
    \* --- the watch client (linkerd/strategy) ---
    addr,        \* the addr argument of the current watch() call
    watch,       \* the caller inside watch(): "idle", "init" (first init),
                 \* "recover" (inside recover()), "Ok" or "Err" (returned)
    daemon,      \* "none", "Streaming", "Recovering" or "Terminated"
    at,          \* the await point of init()/recover(): "none", "call"
                 \* (service.strategy(req).await), "first"
                 \* (stream.try_next().await), "tick" (backoff.try_next().await)
    err,         \* the Error watch() returned or the daemon ended with
    rpc,         \* the RPC in flight: "none", "inflight", "ok", "err"
    head,        \* what the live response stream yields next
    backoff,     \* the `backoff` local of recover()
    tickReady,   \* the awaited item of `backoff` is ready
    chan,        \* the value held by the watch channel
    version,     \* number of values the channel has held (0: no channel)
    readers,     \* live watch::Receiver handles of the channel
    rxAlive,     \* the receiver returned by watch() is still alive
    seen,        \* what that receiver has observed, in order: the
                 \* channel's version and value at each recv()
    \* --- history of the current watch() call ---
    received,    \* responses taken from response streams, tagged with the
                 \* number of the stream (1: the stream watch() handed over)
                 \* and with whether the channel stored their snapshot
    published,   \* values stored in the channel, in order
    ticksUsed,   \* ticks consumed in the current run of recover()
    runCalls,    \* service.strategy(req) calls made in that run
    firstSched,  \* the schedule recover() obtained at its start
    consults,    \* recover.recover(status) calls in the current run
    lastStatus,  \* the status handed to the backoff policy last
    verdict,     \* the policy's answer to it: "none", "retry" or "reject"
    streamFails, \* streams that failed or closed while Streaming
    initFailed,  \* the first init() of watch() failed
    channels,    \* watch::channel(..) calls
    spawned,     \* tokio::spawn(Self::daemon(..)) calls
    \* --- the metrics registry (linkerd/http-metrics) ---
    by_target,   \* Registry::by_target: the keys, in insertion order
    recs,        \* by_target's values: key -> the shared Metrics record
    handles,     \* key -> clones of the record's Arc held outside the
                 \* registry
    orphans,     \* handles held to records the registry does not store
    now,         \* Instant::now()
    op           \* the sweep just performed: its cutoff and the keys it
                 \* evicted (NoSweep after any other operation)

taskVars  == <<watch, daemon, at, err>>
ioVars    == <<rpc, head>>
timerVars == <<backoff, tickReady>>
chanVars  == <<chan, version>>
rdVars    == <<readers, rxAlive, seen>>
runVars   == <<ticksUsed, runCalls, firstSched, consults, lastStatus, verdict>>
histVars  == <<received, published, streamFails, initFailed>>
totals    == <<channels, spawned>>
clientVars ==
    <<addr, taskVars, ioVars, timerVars, chanVars, rdVars, runVars,
      histVars, totals>>
regVars == <<by_target, recs, handles, orphans, now, op>>
vars == <<clientVars, regVars>>

Pending    == [kind |-> "pending", rsp |-> StrategyResponse("absent", "absent", NoAddr, "")]
Item(rsp)  == [kind |-> "item", rsp |-> rsp]
Ended      == [kind |-> "end", rsp |-> Pending.rsp]
Failed     == [kind |-> "err", rsp |-> Pending.rsp]

ClientInit ==
    /\ addr = NoAddr
    /\ watch = "idle" /\ daemon = "none" /\ at = "none" /\ err = NoError
    /\ rpc = "none" /\ head = Pending
    /\ backoff = NoBackoff /\ tickReady = FALSE
    /\ chan = NoStrategy /\ version = 0
    /\ readers = 0 /\ rxAlive = FALSE /\ seen = <<>>
    /\ received = <<>> /\ published = <<>>
    /\ ticksUsed = 0 /\ runCalls = 0 /\ firstSched = NoBackoff /\ consults = 0
    /\ lastStatus = NoError /\ verdict = "none"
    /\ streamFails = 0 /\ initFailed = FALSE
    /\ channels = 0 /\ spawned = 0



(* ---------------------------- the registry ---------------------------- *)

\* the keys of the registry: Target(usize)
Targets == {123, 456, 789}

Times == 0..MaxTime

\* Metrics::default(): last_update: Instant::now(), total: Counter::default()
MetricsDefault == [last_update |-> now, total |-> 0]

\* variant of LastUpdate: the time of the call instead of the stored field
LastUpdate_Now(m) == now

\* <Metrics as LastUpdate>::last_update(&self)
LastUpdate(m) == m.last_update

Keys == {by_target[i] : i \in 1..Len(by_target)}

\* Arc::strong_count of the record stored under k exceeds the registry's own
Held(k) == handles[k] > 0

NoSweep == [name |-> "none", cutoff |-> 0, before |-> <<>>, evicted |-> {}]

\* variant of GetOrCreate: insert(k, Default::default()) in place of
\* entry(k).or_insert_with(..): a present key gets a fresh record, and the
\* handles to the record it replaces are left with a record the registry
\* no longer stores
GetOrCreate_Insert(k) ==
    /\ recs' = [x \in Keys \cup {k} |-> IF x = k THEN MetricsDefault ELSE recs[x]]
    /\ handles' = [x \in Keys \cup {k} |-> IF x = k THEN 1 ELSE handles[x]]
    /\ orphans' = IF k \in Keys THEN orphans + handles[k] ELSE orphans
    /\ by_target' = (IF k \in Keys THEN by_target ELSE Append(by_target, k))
    /\ op' = NoSweep
    /\ UNCHANGED <<now, clientVars>>

\* registry.by_target.entry(k).or_insert_with(|| Default::default()).clone():
\* the record of k, created when k has none, and one more handle to it
GetOrCreate(k) ==
    /\ IF k \in Keys
       THEN /\ handles[k] < MaxHandles
            /\ handles' = [handles EXCEPT ![k] = @ + 1]
            /\ UNCHANGED <<by_target, recs>>
       ELSE /\ recs' = [x \in Keys \cup {k} |->
                          IF x = k THEN MetricsDefault ELSE recs[x]]
            /\ handles' = [x \in Keys \cup {k} |->
                             IF x = k THEN 1 ELSE handles[x]]
            /\ by_target' = Append(by_target, k)
    /\ op' = NoSweep
    /\ UNCHANGED <<orphans, now, clientVars>>

\* in place of a key: a record the registry does not store
Orphan == 0 - 1

\* drop(metrics): a handle held outside the registry is dropped; h is the
\* key of a stored record, or Orphan for a handle to a record the registry
\* does not store
DropHandle(h) ==
    /\ IF h = Orphan
       THEN /\ orphans > 0
            /\ orphans' = orphans - 1
            /\ UNCHANGED handles
       ELSE /\ h \in Keys /\ Held(h)
            /\ handles' = [handles EXCEPT ![h] = @ - 1]
            /\ UNCHANGED orphans
    /\ op' = NoSweep
    /\ UNCHANGED <<by_target, recs, now, clientVars>>

\* a producer records an event through its handle to the record of k:
\* last_update = now and total is incremented, under the record's own lock
RecordEvent(k) ==
    /\ Held(k)
    /\ recs[k].total < MaxEvents
    /\ recs' = [recs EXCEPT ![k] = [last_update |-> now, total |-> @.total + 1]]
    /\ op' = NoSweep
    /\ UNCHANGED <<by_target, handles, orphans, now, clientVars>>

\* Instant::now() advances
ClockTick ==
    /\ now < MaxTime
    /\ now' = now + 1
    /\ op' = NoSweep
    /\ UNCHANGED <<by_target, recs, handles, orphans, clientVars>>

\* the entry of k survives retain_since(epoch)
Retained(k, epoch) == Held(k) \/ LastUpdate(recs[k]) >= epoch

\* variant of Remove: the last entry is moved into the place of the entry
\* removed (IndexMap::swap_remove)
Remove_Swap(entries, k) ==
    LET n == Len(entries)
        i == CHOOSE j \in 1..n : entries[j] = k
    IN  [j \in 1..(n - 1) |-> IF j = i THEN entries[n] ELSE entries[j]]

\* the entry of k is removed from the map; the entries after it move up
Remove(entries, k) == SelectSeq(entries, LAMBDA x : x # k)

\* the handles held outside the registry to the records of the keys in S
RECURSIVE HandlesTo(_)
HandlesTo(S) ==
    IF S = {} THEN 0
    ELSE LET k == CHOOSE x \in S : TRUE
         IN  handles[k] + HandlesTo(S \ {k})

\* the orders in which a sweep may visit the entries
VisitOrders ==
    {v \in [1..Len(by_target) -> Keys] :
        \A i, j \in 1..Len(by_target) : v[i] = v[j] => i = j}

\* the map after the entries have been visited in the order `visit`, each
\* entry that is not retained being removed when it is visited
RECURSIVE Sweep(_, _, _)
Sweep(entries, visit, epoch) ==
    IF visit = <<>>
    THEN entries
    ELSE Sweep(IF Retained(Head(visit), epoch)
               THEN entries
               ELSE Remove(entries, Head(visit)),
               Tail(visit), epoch)

\* Registry::retain_since(epoch), under the registry's write lock: the
\* entries are visited in the order of the map; the handles to a record
\* that is removed stay with their holders
RetainSince(epoch) ==
    LET kept == Sweep(by_target, by_target, epoch)
        keys == {kept[i] : i \in 1..Len(kept)}
    IN  /\ by_target' = kept
        /\ recs' = [k \in keys |-> recs[k]]
        /\ handles' = [k \in keys |-> handles[k]]
        /\ orphans' = orphans + HandlesTo(Keys \ keys)
        /\ op' = [name |-> "retain_since", cutoff |-> epoch,
                  before |-> by_target, evicted |-> Keys \ keys]
        /\ UNCHANGED <<now, clientVars>>

RegInit ==
    /\ by_target = <<>> /\ recs = <<>> /\ handles = <<>>
    /\ orphans = 0 /\ now = 0 /\ op = NoSweep

Init == ClientInit /\ RegInit

RegNext ==
    \/ \E k \in Targets : GetOrCreate(k)
    \/ \E h \in Keys \cup {Orphan} : DropHandle(h)
    \/ \E k \in Keys : RecordEvent(k)
    \/ ClockTick
    \/ \E t \in Times : RetainSince(t)

SpecRegistry == Init /\ [][RegNext]_vars

(* ------------------- the collaborators of the client ------------------ *)

\* Recover::recover(status): the policy either rejects the failure or hands
\* out a retry schedule.  The policy is a parameter of the client (R), so
\* every outcome is possible for every status.
Recover(status) ==
    {[ok |-> FALSE, backoff |-> NoBackoff]}
        \cup {[ok |-> TRUE, backoff |-> b] : b \in Backoffs}

\* variant of Closed: the signal fires once the receiver handed out by
\* watch() is dropped, whatever clones of it are alive
Closed_FirstReceiver == ~rxAlive

\* tx.closed() is ready: every receiver of the channel has been dropped
Closed == readers = 0

\* variant of Broadcast: the value is written into the channel's slot but
\* the channel's version is not advanced, so no receiver is notified
Broadcast_Unversioned(v) ==
    IF Closed
    THEN UNCHANGED <<chan, version, published>>
    ELSE /\ chan' = v
         /\ version' = version
         /\ published' = Append(published, v)

\* tx.broadcast(v): stores v unless no receiver is left (then Err, ignored
\* by `let _ =`)
Broadcast(v) ==
    IF Closed
    THEN UNCHANGED <<chan, version, published>>
    ELSE /\ chan' = v
         /\ version' = version + 1
         /\ published' = Append(published, v)

\* tx.broadcast(v) returns Err (ignored by `let _ =`): the receivers that
\* were alive when tx.closed() was polled have all been dropped, by their
\* own threads, before the value is sent
BroadcastUnheard ==
    /\ readers' = 0 /\ rxAlive' = FALSE
    /\ UNCHANGED <<chan, version, published>>

(* ------------------------ the client: fragments ----------------------- *)

WatchRunning == watch \in {"init", "recover"}
InRecover    == watch = "recover" \/ daemon = "Recovering"

\* variant of BroadcastIO: the stream is polled whether or not tx.closed()
\* is ready (an unbiased select, or the arms in the other order)
BroadcastIO_Unbiased(ready) == ready

\* the second arm of the select_biased! in broadcast(): taken only when the
\* first arm, tx.closed(), is not ready
BroadcastIO(ready) == ~Closed /\ ready

\* variant of RecoverIO: recover() is polled whether or not tx.closed() is
\* ready
RecoverIO_NoCancel(ready) == ready

\* the second arm of the select_biased! in daemon()
RecoverIO(ready) == ~Closed /\ ready

\* variant of Resume: recover() runs as a task of its own, which goes on
\* after the daemon has returned
Resume_Detached(ready) ==
    /\ WatchRunning \/ daemon \in {"Recovering", "Terminated"}
    /\ ready

\* an await of init()/recover() resumes: inside watch() nothing else is
\* polled, inside the daemon the await is the second arm of its select
Resume(ready) ==
    \/ WatchRunning /\ ready
    \/ daemon = "Recovering" /\ RecoverIO(ready)

\* variant of WatchErr: the channel and the daemon are set up before the
\* result of recover() is examined
WatchErr_Spawns ==
    /\ watch' = "Err"
    /\ daemon' = "Streaming"
    /\ channels' = channels + 1
    /\ spawned' = spawned + 1
    /\ UNCHANGED <<chan, version, readers, rxAlive, published>>

\* watch(): `.await?` on recover() returns the error before line 82
WatchErr ==
    /\ watch' = "Err"
    /\ UNCHANGED <<daemon, chan, version, readers, rxAlive, published, totals>>

\* daemon(): Err(error) => { trace!(..); return; }
DaemonErr ==
    /\ daemon' = "Terminated"
    /\ UNCHANGED <<watch, chan, version, readers, rxAlive, published, totals>>

\* recover() returns Err(e)
GiveUp(e) ==
    /\ err' = e
    /\ at' = "none"
    /\ backoff' = NoBackoff /\ tickReady' = FALSE
    /\ IF WatchRunning THEN WatchErr ELSE DaemonErr
    /\ UNCHANGED received

\* variant of WatchOk: the channel is created with a placeholder value
WatchOk_Placeholder(rsp) ==
    /\ chan' = NoStrategy
    /\ version' = 1
    /\ published' = <<NoStrategy>>
    /\ readers' = 1 /\ rxAlive' = TRUE
    /\ daemon' = "Streaming"
    /\ watch' = "Ok"
    /\ channels' = channels + 1
    /\ spawned' = spawned + 1

\* watch(): watch::channel(strategy), tokio::spawn(daemon(..)), Ok(rx)
WatchOk(rsp) ==
    /\ chan' = StrategyNew(addr, rsp)
    /\ version' = 1
    /\ published' = <<StrategyNew(addr, rsp)>>
    /\ readers' = 1 /\ rxAlive' = TRUE
    /\ daemon' = "Streaming"
    /\ watch' = "Ok"
    /\ channels' = channels + 1
    /\ spawned' = spawned + 1

\* variant of DaemonReconnected: the first update of the new stream is not
\* broadcast
DaemonReconnected_NoBroadcast(rsp) ==
    /\ daemon' = "Streaming"
    /\ UNCHANGED <<chan, version, published, watch, readers, rxAlive, totals>>

\* daemon(): Ok((strategy, stream)) => { tx.broadcast(strategy); responses = stream }
DaemonReconnected(rsp) ==
    /\ \/ Broadcast(StrategyNew(addr, rsp)) /\ UNCHANGED <<readers, rxAlive>>
       \/ BroadcastUnheard
    /\ daemon' = "Streaming"
    /\ UNCHANGED <<watch, totals>>

\* init() returns Ok((Strategy::new(addr, rsp), stream))
Established(rsp) ==
    /\ IF WatchRunning THEN WatchOk(rsp) ELSE DaemonReconnected(rsp)
    /\ received' = Append(received, [stream |-> streamFails + 1, rsp |-> rsp,
                                      sent |-> version' # version])
    /\ at' = "none"
    /\ backoff' = NoBackoff /\ tickReady' = FALSE
    /\ ticksUsed' = 0 /\ runCalls' = 0 /\ firstSched' = NoBackoff
    /\ consults' = 0 /\ lastStatus' = NoError /\ verdict' = "none"
    /\ UNCHANGED err

\* recover(): `let mut backoff = recover.recover(status)?`
FirstFailureFatal(p) == ~p.ok

\* variant of RenewedFailureFatal: `let _ = recover.recover(status);`
RenewedFailureFatal_Ignored(p) == FALSE

\* recover(): `let _ = recover.recover(status)?` after a failed attempt
RenewedFailureFatal(p) == ~p.ok

\* variant of NextBackoff: `backoff = recover.recover(status)?`
NextBackoff_Reset(current, fresh) == fresh

\* recover(): "Reuse the existing backoff instead of resetting"
NextBackoff(current, fresh) == current

\* variant of FreshSchedule: the daemon keeps the schedule of its first
\* recovery, which later recoveries find used up
FreshSchedule_CarriedOver(p) ==
    IF streamFails >= 1 THEN [p.backoff EXCEPT !.ticks = 0] ELSE p.backoff

\* recover(): `let mut backoff = recover.recover(status)?`: the schedule the
\* policy hands out for the failure that starts this run
FreshSchedule(p) == p.backoff

\* a failure `status` reaches the policy: at the start of recover(), or
\* inside its loop after a failed init()
Failure(status) ==
    \E p \in Recover(status) :
        /\ lastStatus' = status
        /\ verdict' = (IF p.ok THEN "retry" ELSE "reject")
        /\ IF InRecover
           THEN /\ consults' = consults + 1
                /\ UNCHANGED <<ticksUsed, runCalls, firstSched>>
                /\ IF RenewedFailureFatal(p)
                   THEN GiveUp(PolicyRejected)
                   ELSE /\ backoff' = NextBackoff(backoff, p.backoff)
                        /\ tickReady' = FALSE
                        /\ at' = "tick"
                        /\ UNCHANGED <<watch, daemon, err>>
                        /\ UNCHANGED <<chan, version, readers, rxAlive,
                                       published, received, totals>>
           ELSE /\ consults' = 1
                /\ ticksUsed' = 0 /\ runCalls' = 0
                /\ firstSched' = FreshSchedule(p)
                /\ IF FirstFailureFatal(p)
                   THEN GiveUp(PolicyRejected)
                   ELSE /\ backoff' = FreshSchedule(p)
                        /\ tickReady' = FALSE
                        /\ at' = "tick"
                        /\ watch' = (IF WatchRunning THEN "recover" ELSE watch)
                        /\ daemon' = (IF WatchRunning THEN daemon
                                                      ELSE "Recovering")
                        /\ UNCHANGED <<err, chan, version, readers, rxAlive,
                                       published, received, totals>>

\* variant of OnStreamEnd: a stream that closes is a hard failure, returned
\* without consulting the policy
OnStreamEnd_Fatal ==
    /\ GiveUp(ServerClosed)
    /\ UNCHANGED runVars

\* init(): Ok(None) => Err(Status(Code::Ok, "server closed stream"));
\* broadcast(): None => return Err(Status(Code::Ok, "server closed stream"))
OnStreamEnd == Failure(ServerClosed)

\* init(): Err(status) => Err(status); broadcast(): `res?`
OnStreamError == Failure(Unavailable)

(* ------------------------- the client: actions ------------------------ *)

\* watch(addr): builds the request and enters init(), which starts the RPC.
\* &mut self: one call at a time; the model follows the latest call and its
\* daemon, and the next call starts once that daemon has exited.
Watch(a) ==
    /\ watch \in {"idle", "Err"} \/ (watch = "Ok" /\ daemon = "Terminated")
    /\ addr' = a
    /\ watch' = "init" /\ daemon' = "none" /\ at' = "call" /\ err' = NoError
    /\ rpc' = "inflight" /\ head' = Pending
    /\ backoff' = NoBackoff /\ tickReady' = FALSE
    /\ chan' = NoStrategy /\ version' = 0
    /\ readers' = 0 /\ rxAlive' = FALSE /\ seen' = <<>>
    /\ received' = <<>> /\ published' = <<>>
    /\ ticksUsed' = 0 /\ runCalls' = 0 /\ firstSched' = NoBackoff /\ consults' = 0
    /\ lastStatus' = NoError /\ verdict' = "none"
    /\ streamFails' = 0 /\ initFailed' = FALSE
    /\ channels' = 0 /\ spawned' = 0
    /\ UNCHANGED regVars

\* init(): service.strategy(req).await completes
InitCallDone ==
    /\ at = "call"
    /\ Resume(rpc \in {"ok", "err"})
    /\ rpc' = "none" /\ head' = Pending
    /\ IF rpc = "ok"
       THEN /\ at' = "first"
            /\ UNCHANGED <<watch, daemon, err, timerVars, chanVars, readers,
                           rxAlive, runVars, received, published, totals,
                           initFailed>>
       ELSE /\ Failure(Unavailable)
            /\ initFailed' = (initFailed \/ watch = "init")
    /\ UNCHANGED <<addr, seen, streamFails, regVars>>

\* init(): stream.try_next().await completes
InitFirst ==
    /\ at = "first"
    /\ Resume(head.kind # "pending")
    /\ rpc' = "none" /\ head' = Pending
    /\ CASE head.kind = "item" ->
                /\ Established(head.rsp)
                /\ UNCHANGED initFailed
         [] head.kind = "end" ->
                /\ OnStreamEnd
                /\ initFailed' = (initFailed \/ watch = "init")
         [] OTHER ->
                /\ OnStreamError
                /\ initFailed' = (initFailed \/ watch = "init")
    /\ UNCHANGED <<addr, seen, streamFails, regVars>>

\* variant of Exhausted: the end of the schedule is not examined
Exhausted_Never(b) == FALSE

\* recover(): backoff.try_next() ended with None
Exhausted(b) == b.ticks = 0 /\ ~b.fails

\* variant of TickAwaited: the loop goes on without waiting for the tick
TickAwaited_Skipped == TRUE

\* recover(): backoff.try_next()...await: the next item of the schedule
TickAwaited == tickReady

\* recover(): backoff.try_next().await completes
RecoverTick ==
    /\ at = "tick"
    /\ Resume(TickAwaited)
    /\ IF backoff.ticks = 0 /\ backoff.fails
       THEN /\ GiveUp(BackoffFailed)
            /\ rpc' = "none"
            /\ UNCHANGED runVars
       ELSE IF Exhausted(backoff)
       THEN /\ GiveUp(BackoffExhausted)
            /\ rpc' = "none"
            /\ UNCHANGED runVars
       ELSE /\ backoff' = [backoff EXCEPT !.ticks = @ - 1]
            /\ tickReady' = FALSE
            /\ ticksUsed' = ticksUsed + 1
            /\ at' = "call"
            /\ rpc' = "inflight"
            /\ runCalls' = runCalls + 1
            /\ UNCHANGED <<watch, daemon, err, chanVars, readers, rxAlive,
                           received, published, totals, firstSched,
                           consults, lastStatus, verdict>>
    /\ UNCHANGED <<addr, head, seen, streamFails, initFailed, regVars>>

\* broadcast(): () = tx.closed() => return Ok(()); daemon(): Ok(()) => return
BroadcastClosed ==
    /\ daemon = "Streaming"
    /\ Closed
    /\ daemon' = "Terminated"
    /\ UNCHANGED <<addr, watch, at, err, ioVars, timerVars, chanVars,
                   rdVars, runVars, histVars, totals, regVars>>

\* variant of BroadcastItem: a snapshot equal to the channel's current value
\* is not sent again
BroadcastItem_Dedup ==
    /\ daemon = "Streaming"
    /\ BroadcastIO(head.kind = "item")
    /\ \/ /\ IF StrategyNew(addr, head.rsp) = chan
             THEN UNCHANGED <<chan, version, published>>
             ELSE Broadcast(StrategyNew(addr, head.rsp))
          /\ UNCHANGED <<readers, rxAlive>>
       \/ BroadcastUnheard
    /\ received' = Append(received, [stream |-> streamFails + 1, rsp |-> head.rsp,
                                      sent |-> version' # version])
    /\ head' = Pending
    /\ UNCHANGED <<addr, taskVars, rpc, timerVars, seen, runVars,
                   streamFails, initFailed, totals, regVars>>

\* broadcast(): Some(s) => tx.broadcast(Strategy::new(addr, s))
BroadcastItem ==
    /\ daemon = "Streaming"
    /\ BroadcastIO(head.kind = "item")
    /\ \/ Broadcast(StrategyNew(addr, head.rsp)) /\ UNCHANGED <<readers, rxAlive>>
       \/ BroadcastUnheard
    /\ received' = Append(received, [stream |-> streamFails + 1, rsp |-> head.rsp,
                                      sent |-> version' # version])
    /\ head' = Pending
    /\ UNCHANGED <<addr, taskVars, rpc, timerVars, seen, runVars,
                   streamFails, initFailed, totals, regVars>>

\* broadcast(): `res?` or None => Err(status); daemon(): Err(status) => the
\* select_biased! over tx.closed() and recover(.., status)
BroadcastFailed ==
    /\ daemon = "Streaming"
    /\ BroadcastIO(head.kind \in {"end", "err"})
    /\ RecoverIO(TRUE)
    /\ IF head.kind = "end" THEN OnStreamEnd ELSE OnStreamError
    /\ streamFails' = streamFails + 1
    /\ head' = Pending
    /\ UNCHANGED <<addr, rpc, seen, initFailed, regVars>>

\* variant of DaemonClosed: the drop signal is acted upon only once the
\* call in flight has completed
DaemonClosed_AfterCall ==
    /\ daemon = "Recovering"
    /\ Closed
    /\ rpc # "inflight"
    /\ daemon' = "Terminated"
    /\ UNCHANGED <<addr, watch, at, err, ioVars, timerVars, chanVars,
                   rdVars, runVars, histVars, totals, regVars>>

\* daemon(): () = tx.closed().fuse() => { return; }: the future of recover()
\* is dropped where it is suspended (at, rpc, head and backoff keep what it
\* was waiting for)
DaemonClosed ==
    /\ daemon = "Recovering"
    /\ Closed
    /\ daemon' = "Terminated"
    /\ UNCHANGED <<addr, watch, at, err, ioVars, timerVars, chanVars,
                   rdVars, runVars, histVars, totals, regVars>>


(* --------------------- the client: the environment -------------------- *)

\* the service answers the call in flight: a response stream, or a status
RpcCompletes ==
    /\ WatchRunning \/ daemon = "Recovering"
    /\ rpc = "inflight"
    /\ \E r \in {"ok", "err"} : rpc' = r
    /\ UNCHANGED <<addr, taskVars, head, timerVars, chanVars, rdVars,
                   runVars, histVars, totals, regVars>>

StreamOpen ==
    \/ at = "first" /\ (WatchRunning \/ daemon = "Recovering")
    \/ daemon = "Streaming"

\* the server sends the next response on the live stream
StreamSends ==
    /\ StreamOpen /\ head = Pending
    /\ Len(received) < MaxRecv
    /\ \E r \in Responses : head' = Item(r)
    /\ UNCHANGED <<addr, taskVars, rpc, timerVars, chanVars, rdVars,
                   runVars, histVars, totals, regVars>>

\* the live stream closes (the server ends it) or fails (transport error)
StreamBreaks ==
    /\ StreamOpen /\ head = Pending
    /\ daemon = "Streaming" => streamFails < MaxStreamFails
    /\ \E h \in {Ended, Failed} : head' = h
    /\ UNCHANGED <<addr, taskVars, rpc, timerVars, chanVars, rdVars,
                   runVars, histVars, totals, regVars>>

\* the awaited item of the retry schedule becomes ready
TimerFires ==
    /\ WatchRunning \/ daemon = "Recovering"
    /\ at = "tick" /\ ~tickReady
    /\ tickReady' = TRUE
    /\ UNCHANGED <<addr, taskVars, ioVars, backoff, chanVars, rdVars,
                   runVars, histVars, totals, regVars>>

\* a reader clones its watch::Receiver
ReaderClones ==
    /\ readers >= 1 /\ readers < MaxReaders
    /\ readers' = readers + 1
    /\ UNCHANGED <<addr, taskVars, ioVars, timerVars, chanVars,
                   rxAlive, seen, runVars, histVars, totals, regVars>>

\* the caller of watch() drops the receiver it was given
ReaderDropsRx ==
    /\ rxAlive
    /\ rxAlive' = FALSE
    /\ readers' = readers - 1
    /\ UNCHANGED <<addr, taskVars, ioVars, timerVars, chanVars,
                   seen, runVars, histVars, totals, regVars>>

\* a clone of the receiver is dropped
ReaderDropsClone ==
    /\ readers > (IF rxAlive THEN 1 ELSE 0)
    /\ readers' = readers - 1
    /\ UNCHANGED <<addr, taskVars, ioVars, timerVars, chanVars,
                   rxAlive, seen, runVars, histVars, totals, regVars>>

\* the channel version the receiver given by watch() has observed
SeenVersion == IF seen = <<>> THEN 0 ELSE seen[Len(seen)].ver

\* rx.recv(): the receiver given by watch() observes the channel's value when
\* it has not seen this version yet
ReaderRecv ==
    /\ rxAlive /\ SeenVersion < version
    /\ seen' = Append(seen, [ver |-> version, val |-> chan])
    /\ UNCHANGED <<addr, taskVars, ioVars, timerVars, chanVars,
                   readers, rxAlive, runVars, histVars, totals, regVars>>

Next ==
    \/ \E a \in Addrs : Watch(a)
    \/ InitCallDone
    \/ InitFirst
    \/ RecoverTick
    \/ BroadcastClosed
    \/ BroadcastItem
    \/ BroadcastFailed
    \/ DaemonClosed
    \/ RpcCompletes
    \/ StreamSends
    \/ StreamBreaks
    \/ TimerFires
    \/ ReaderClones
    \/ ReaderDropsRx
    \/ ReaderDropsClone
    \/ ReaderRecv

Spec == Init /\ [][Next]_vars

\* a step of the spawned daemon task
DaemonStep ==
    \/ BroadcastClosed
    \/ BroadcastItem
    \/ BroadcastFailed
    \/ DaemonClosed
    \/ daemon = "Recovering" /\ (InitCallDone \/ InitFirst \/ RecoverTick)

\* tokio polls a spawned task again once a future it awaits has woken it
FairSpec == Spec /\ WF_vars(DaemonStep)


(* ------------------ Strategy::new over all responses ------------------ *)

\* addresses an Endpoint target carries: the request's own and another one
EndpointAddrs == Addrs \cup {"10.0.0.2:8080"}

\* every shape of api::StrategyResponse that Strategy::new tells apart: the
\* Endpoint's address only under an Endpoint target, an authority only under
\* a Concrete one
AllResponses ==
    {StrategyResponse(d, k, e, a) :
        d \in {"absent", "unset", "Client", "Opaque"},
        k \in {"absent", "unset", "Logical"}, e \in {NoAddr}, a \in {""}}
    \cup
    {StrategyResponse(d, "Endpoint", e, "") :
        d \in {"absent", "unset", "Client", "Opaque"},
        e \in {"absent", "unset", "invalid"} \cup EndpointAddrs}
    \cup
    {StrategyResponse(d, "Concrete", NoAddr, a) :
        d \in {"absent", "unset", "Client", "Opaque"},
        a \in {"web.svc", "api.svc"}}

\* a watch(addr) whose stream holds any response as its next item
StrategyInit ==
    /\ addr \in Addrs
    /\ head \in {Item(r) : r \in AllResponses}
    /\ watch = "idle" /\ daemon = "none" /\ at = "none" /\ err = NoError
    /\ rpc = "none"
    /\ backoff = NoBackoff /\ tickReady = FALSE
    /\ chan = NoStrategy /\ version = 0
    /\ readers = 0 /\ rxAlive = FALSE /\ seen = <<>>
    /\ received = <<>> /\ published = <<>>
    /\ ticksUsed = 0 /\ runCalls = 0 /\ firstSched = NoBackoff /\ consults = 0
    /\ lastStatus = NoError /\ verdict = "none"
    /\ streamFails = 0 /\ initFailed = FALSE
    /\ channels = 0 /\ spawned = 0
    /\ RegInit

\* Strategy::new(addr, rsp) applied to the item taken from the stream, as in
\* init() and broadcast(); the snapshot built is kept in `chan`, the
\* response it was built from in `received`
ApplyStrategyNew ==
    /\ head.kind = "item"
    /\ chan' = StrategyNew(addr, head.rsp)
    /\ received' = <<[stream |-> 1, rsp |-> head.rsp, sent |-> TRUE]>>
    /\ head' = Pending
    /\ UNCHANGED <<addr, taskVars, rpc, timerVars, version, rdVars, runVars,
                   published, streamFails, initFailed, totals, regVars>>

\* the stream yields its next response
NextResponse ==
    /\ head = Pending
    /\ \E r \in AllResponses : head' = Item(r)
    /\ UNCHANGED <<addr, taskVars, rpc, timerVars, chanVars, rdVars, runVars,
                   histVars, totals, regVars>>

StrategyNext == ApplyStrategyNew \/ NextResponse

SpecStrategy == StrategyInit /\ [][StrategyNext]_vars

(* ------------------------- registry properties ------------------------ *)

\* C1: for every key K and every cutoff t, retain_since(t) keeps K's record
\* if and only if last_update(K) >= t or a handle to the record is held
\* outside the registry; it removes the record if and only if
\* last_update(K) < t and the map entry is the only reference; no other key
\* appears.
C1_RetainSinceIff ==
    [][\A t \in Times :
          (op'.name = "retain_since" /\ op'.cutoff = t) =>
              /\ Keys' \subseteq Keys
              /\ op'.evicted = Keys \ Keys'
              /\ \A k \in Keys :
                    (k \in Keys') <=>
                        (recs[k].last_update >= t \/ handles[k] > 0)
              /\ \A k \in Keys :
                    (k \notin Keys') <=>
                        (recs[k].last_update < t /\ handles[k] = 0)
      ]_vars

\* a sweep has just removed a stale record nobody held and kept a record
\* that is as stale but still held outside the registry
C1_Witness ==
    /\ op.name = "retain_since" /\ op.evicted # {}
    /\ \E k \in Keys :
          handles[k] > 0 /\ recs[k].last_update < op.cutoff

\* C2: under any interleaving of get_or_create, handle drops, record
\* mutations and sweeps, the registry holds at most one record per key, and
\* every handle held outside the registry refers to the record the registry
\* stores under its key: no producer holds (or writes to) an evicted record.
C2_OneLiveRecordPerKey ==
    /\ \A i, j \in 1..Len(by_target) : by_target[i] = by_target[j] => i = j
    /\ DOMAIN recs = Keys /\ DOMAIN handles = Keys
    /\ orphans = 0

\* a sweep has evicted a record while a producer held another record, which
\* it had written to and which the sweep kept
C2_Witness ==
    /\ op.name = "retain_since" /\ op.evicted # {}
    /\ \E k \in Keys : handles[k] > 0 /\ recs[k].total > 0
    /\ Len(by_target) = 2


\* C17: retain_since(cutoff) changes nothing but the set of evicted
\* entries: every entry that does not qualify for eviction stays with the
\* same key, the same handles and the same record contents, the clock and
\* the handles to unstored records are untouched, and the retained entries
\* keep their relative (insertion) order, whatever the order in which the
\* entries are visited.
C17_SweepChangesOnlyEvicted ==
    /\ [][op'.name = "retain_since" =>
              LET kept == Keys'
              IN  /\ by_target' = SelectSeq(by_target, LAMBDA k : k \in kept)
                  /\ \A k \in kept :
                        recs'[k] = recs[k] /\ handles'[k] = handles[k]
                  /\ \A k \in Keys : Retained(k, op'.cutoff) => k \in kept
                  /\ orphans' = orphans /\ now' = now
         ]_vars
    /\ [](\A visit \in VisitOrders : \A t \in Times :
              Sweep(by_target, visit, t) =
                  SelectSeq(by_target, LAMBDA k : Retained(k, t)))

\* a sweep has evicted the first of three entries; the two entries after
\* it, one of them written to by the producer that holds it, are the map
C17_Witness ==
    /\ op.name = "retain_since" /\ Len(op.before) = 3
    /\ op.evicted = {op.before[1]}
    /\ by_target = Tail(op.before)
    /\ \E k \in Keys : handles[k] > 0 /\ recs[k].total > 0


(* -------------------------- client properties ------------------------- *)

RecoveryErrors == {PolicyRejected, BackoffExhausted, BackoffFailed}

DaemonAlive == daemon \in {"Streaming", "Recovering"}

\* C3: when the initial RPC call of watch(addr) fails, watch runs the
\* recovery procedure before returning (it is inside recover(), with the
\* policy consulted, or has returned the error of a recovery that failed);
\* when that recovery fails, watch returns the error, and no channel has been
\* created and no daemon spawned.
C3_WatchFailsWithoutSpawning ==
    /\ watch = "init" => ~initFailed
    /\ watch = "recover" =>
          /\ initFailed /\ consults >= 1
          /\ channels = 0 /\ spawned = 0 /\ daemon = "none" /\ version = 0
    /\ watch = "Err" =>
          /\ initFailed /\ consults >= 1
          /\ err \in RecoveryErrors
          /\ channels = 0 /\ spawned = 0 /\ daemon = "none"
          /\ version = 0 /\ readers = 0 /\ published = <<>>

\* watch() has returned the error of a recovery that used up its schedule
\* after two failed reconnect attempts
C3_Witness ==
    /\ watch = "Err" /\ err = BackoffExhausted
    /\ ticksUsed = 2 /\ runCalls = 2

\* C4: every successful watch(addr) call, whether its first RPC attempt or a
\* recovery attempt succeeded, has created exactly one channel, seeded with
\* the snapshot built from the first response of the stream that succeeded,
\* and has started exactly one daemon (the writer of the channel); what the
\* reader observes is always a value stored in the channel, never a
\* placeholder.
C4_OneChannelOneDaemon ==
    /\ channels = spawned /\ channels \in {0, 1}
    /\ (watch = "Ok") <=> (channels = 1)
    /\ (daemon # "none") <=> (spawned = 1)
    /\ watch = "Ok" =>
          /\ Len(received) >= 1 /\ received[1].stream = 1
          /\ Len(published) >= 1
          /\ published[1] = StrategyNew(addr, received[1].rsp)
          /\ version = Len(published)
          /\ chan = published[version]
          /\ \A i \in 1..Len(seen) :
                /\ seen[i].ver \in 1..version
                /\ seen[i].val = published[seen[i].ver]
                /\ seen[i].val.addr = addr
    /\ watch # "Ok" => version = 0 /\ readers = 0 /\ seen = <<>>

\* watch() succeeded through a recovery attempt, and the reader has observed
\* the seed of the channel
C4_Witness ==
    /\ watch = "Ok" /\ initFailed /\ channels = 1 /\ spawned = 1
    /\ Len(seen) >= 1 /\ seen[1].ver = 1

\* C5: once all readers of the channel have been dropped, the daemon
\* eventually reaches Terminated without an error, from Streaming and from
\* Recovering alike.
C5_DropLeadsToCleanExit ==
    (DaemonAlive /\ Closed) ~> (daemon = "Terminated" /\ err = NoError)

\* the daemon exited cleanly while recover() was waiting for a backoff tick
C5_Witness ==
    /\ daemon = "Terminated" /\ err = NoError /\ Closed
    /\ at = "tick" /\ verdict = "retry"

\* C6: with all readers dropped, no step of a live daemon starts an RPC
\* call, takes a stream item, a stream end or a tick, or publishes: its only
\* step is the exit, also when the item, the failure or the tick is ready at
\* the same time as the drop signal.
C6_CancellationFirst ==
    [][(DaemonAlive /\ Closed) =>
          /\ ~(rpc' = "inflight" /\ rpc # "inflight")
          /\ runCalls' = runCalls
          /\ ticksUsed' = ticksUsed
          /\ received' = received
          /\ streamFails' = streamFails
          /\ published' = published /\ chan' = chan /\ version' = version
          /\ daemon' \in {daemon, "Terminated"}
          /\ err' = NoError
      ]_vars

\* the daemon exited on the drop signal while a response was ready on the
\* stream; the response was not taken
C6_Witness ==
    /\ daemon = "Terminated" /\ err = NoError /\ Closed
    /\ head.kind = "item"

\* the values published so far are the snapshots of the responses taken so
\* far, one for one and in order; a response whose snapshot the channel did
\* not store was taken when the last reader had just gone
PublishedAsReceived ==
    /\ Len(published) <= Len(received)
    /\ \A i \in 1..Len(received) :
          IF i <= Len(published)
          THEN /\ received[i].sent
               /\ published[i] = StrategyNew(addr, received[i].rsp)
          ELSE ~received[i].sent /\ Closed

\* the receiver has observed a snapshot of stream n
SawStream(n) ==
    \E i \in 1..Len(seen) :
        seen[i].ver <= Len(received) /\ received[seen[i].ver].stream = n

\* the first stream failed once and the reconnect succeeded, with responses
\* taken from both streams
FailedOnceThenReconnected ==
    /\ daemon = "Streaming" /\ streamFails = 1
    /\ \E i \in 1..Len(received) : received[i].stream = 1
    /\ \E i \in 1..Len(received) : received[i].stream = 2

\* C7 as stated: after a stream that failed once and a reconnect that
\* succeeded, a reader that stayed alive (and has read the channel's current
\* value) has observed snapshots of both the pre-failure and the
\* post-failure stream.
C7_ReaderSeesBothStreams ==
    (FailedOnceThenReconnected /\ rxAlive /\ SeenVersion = version) =>
        (SawStream(1) /\ SawStream(2))

\* C7 as amended: the values published on the channel are the snapshots of
\* the responses received, without duplicate or gap, across the failure and
\* the reconnect; a reader that stayed alive and read the channel after every
\* publication has observed exactly that sequence, so snapshots of both
\* streams.
C7_NoGapNoDuplicate ==
    /\ PublishedAsReceived
    /\ (rxAlive /\ Len(seen) = version) =>
          /\ Len(seen) = Len(published)
          /\ \A i \in 1..Len(seen) :
                seen[i] = [ver |-> i, val |-> published[i]]
    /\ (FailedOnceThenReconnected /\ rxAlive /\ Len(seen) = version) =>
          (SawStream(1) /\ SawStream(2))

\* a reader that read after every publication has seen the snapshot of the
\* stream that failed and the snapshot of the reconnected stream
C7_Witness ==
    /\ FailedOnceThenReconnected /\ rxAlive
    /\ Len(seen) = version /\ version = 2
    /\ SawStream(1) /\ SawStream(2)


\* C8: within one run of recover() every tick comes from the schedule
\* obtained for the first failure: what is left of `backoff` is that schedule
\* minus the ticks consumed, whatever schedules the policy returned for the
\* later failures; k failed reconnect attempts have consumed k ticks; and
\* the run ends with "Backoff exhausted" after exactly the N ticks of the
\* first schedule, the policy having been consulted N + 1 times.
C8_OneScheduleOnly ==
    /\ InRecover =>
          /\ backoff = [firstSched EXCEPT !.ticks = @ - ticksUsed]
          /\ backoff.ticks >= 0
          /\ at = "tick" => ticksUsed = consults - 1
          /\ at \in {"call", "first"} => ticksUsed = consults
    /\ err = BackoffExhausted =>
          /\ ~firstSched.fails
          /\ ticksUsed = firstSched.ticks
          /\ consults = firstSched.ticks + 1

\* a run of recover() ended with "Backoff exhausted" after two failed
\* reconnect attempts: three consultations of the policy, two ticks
C8_Witness ==
    /\ err = BackoffExhausted
    /\ firstSched.ticks = 2 /\ ticksUsed = 2 /\ consults = 3

\* C9: when the policy rejects a failure, be it the failure that started the
\* recovery or a renewed failure of a reconnect attempt, recover() has ended
\* with the policy's error at once: nothing is awaited, no RPC is in flight,
\* and the ticks and calls of the run are those of the attempts before the
\* rejected failure.  The daemon is then Terminated; watch() has returned the
\* error.
C9_RejectionIsFatal ==
    /\ verdict = "reject" =>
          /\ err = PolicyRejected
          /\ ~InRecover /\ ~(watch = "init")
          /\ IF daemon = "none" THEN watch = "Err" ELSE daemon = "Terminated"
          /\ at = "none" /\ rpc = "none"
          /\ ticksUsed = consults - 1
          /\ runCalls = ticksUsed
    /\ err = PolicyRejected => verdict = "reject"

\* the daemon terminated on the policy's rejection of a renewed failure,
\* after one tick and one failed reconnect attempt
C9_Witness ==
    /\ verdict = "reject" /\ daemon = "Terminated"
    /\ consults = 2 /\ ticksUsed = 1 /\ runCalls = 1

\* the recovery procedure is suspended on a schedule that has ended, and is
\* free to resume
AtEndOfSchedule ==
    /\ InRecover /\ at = "tick" /\ tickReady
    /\ backoff.ticks = 0 /\ ~backoff.fails
    /\ daemon = "Recovering" => ~Closed

\* C10: when the retry schedule yields no more ticks, the step that resumes
\* recover() ends it with "Backoff exhausted" and starts no RPC call; the
\* daemon is then Terminated (watch() has returned Err), nothing is awaited,
\* and every call of the run was preceded by a tick.
C10_ExhaustionIsFatal ==
    /\ [](err = BackoffExhausted =>
              /\ IF daemon = "none" THEN watch = "Err" ELSE daemon = "Terminated"
              /\ at = "none" /\ rpc = "none"
              /\ runCalls = ticksUsed)
    /\ [][(AtEndOfSchedule /\ <<watch, daemon, at>>' # <<watch, daemon, at>>) =>
              /\ err' = BackoffExhausted
              /\ rpc' = "none"
              /\ runCalls' = runCalls
              /\ ticksUsed' = ticksUsed
         ]_vars

\* a daemon in Recovering went to Terminated on the end of its schedule
C10_Witness ==
    /\ daemon = "Terminated" /\ err = BackoffExhausted
    /\ streamFails = 1 /\ ticksUsed = 1


\* C11 as stated: the daemon is never Terminated while a reader of its
\* channel is alive.
C11_TerminatedOnlyWithoutReaders ==
    daemon = "Terminated" => readers = 0

\* C11 as amended: the daemon terminates without an error only when every
\* reader has been dropped; with a reader alive it terminates only on an
\* error of the recovery procedure, and a step that ends the daemon either
\* finds no reader left or records such an error.
C11_CleanExitOnlyWithoutReaders ==
    /\ [](daemon = "Terminated" =>
              /\ err = NoError => readers = 0
              /\ readers > 0 => err \in RecoveryErrors)
    /\ [][(DaemonAlive /\ daemon' = "Terminated") =>
              \/ readers = 0 /\ err' = NoError
              \/ readers > 0 /\ readers' = readers /\ err' \in RecoveryErrors
         ]_vars

\* the daemon ended on the policy's rejection while two readers were alive
C11_Witness ==
    /\ daemon = "Terminated" /\ err = PolicyRejected
    /\ readers = 2 /\ rxAlive


\* C12: what one reader observes is an order-preserving subsequence of what
\* was published: the versions it has seen increase strictly, each value it
\* saw is the value published under that version, a read returns the value
\* published last, and a reader with no read pending holds the channel's
\* current value.
C12_ReaderSeesPublicationOrder ==
    /\ [](/\ \A i, j \in 1..Len(seen) : i < j => seen[i].ver < seen[j].ver
          /\ \A i \in 1..Len(seen) :
                /\ seen[i].ver \in 1..Len(published)
                /\ seen[i].val = published[seen[i].ver]
          /\ (rxAlive /\ seen # <<>> /\ SeenVersion = version) =>
                seen[Len(seen)].val = chan)
    /\ [][(seen' # seen /\ seen' # <<>>) =>
              /\ Len(published) >= 1
              /\ seen' = Append(seen, [ver |-> Len(published),
                                       val |-> published[Len(published)]])
         ]_vars

\* a slow reader: its first read came after the second publication and
\* returned that value, not the older, different one
C12_Witness ==
    /\ Len(published) = 2 /\ published[1] # published[2]
    /\ Len(seen) = 1 /\ seen[1] = [ver |-> 2, val |-> published[2]]


\* the running task takes the end or the failure of its response stream
StreamFailureTaken ==
    /\ WatchRunning \/ DaemonAlive
    /\ head.kind \in {"end", "err"}
    /\ head' = Pending

\* C13: a stream that closes without an error, with zero responses during
\* an init() or later during Streaming, is handled as a stream that fails:
\* the step that takes it submits a status to the backoff policy ("server
\* closed stream" in place of the transport error's status) and what follows
\* depends on the policy's answer alone: the recovery procedure waits for a
\* tick, or ends with the policy's error.  The status itself is never the
\* outcome of watch() or of the daemon.
C13_CloseHandledAsError ==
    /\ [](err \in {NoError} \cup RecoveryErrors)
    /\ [][StreamFailureTaken =>
              /\ lastStatus' = (IF head.kind = "end" THEN ServerClosed
                                                      ELSE Unavailable)
              /\ consults' = (IF InRecover THEN consults + 1 ELSE 1)
              /\ verdict' \in {"retry", "reject"}
              /\ verdict' = "retry" =>
                    /\ watch' = "recover" \/ daemon' = "Recovering"
                    /\ at' = "tick" /\ err' = NoError
              /\ verdict' = "reject" =>
                    /\ err' = PolicyRejected
                    /\ watch' = "Err" \/ daemon' = "Terminated"
         ]_vars

\* the first init() of watch() failed, and later the stream ended during
\* Streaming: the close was submitted to the policy and the daemon is
\* waiting for the first tick of the schedule it was given
C13_Witness ==
    /\ initFailed /\ daemon = "Recovering" /\ streamFails = 1
    /\ lastStatus = ServerClosed /\ consults = 1 /\ at = "tick"


\* C14: Terminated is absorbing.  Once the daemon has terminated, whatever
\* ended it, no step starts an RPC call, consumes a tick, takes a response
\* or publishes: the task, its I/O, its schedule and the channel's value stay
\* as they are until a new watch() call, and a daemon starts only in the
\* step in which a watch() call returns Ok.
C14_TerminatedIsAbsorbing ==
    /\ [][daemon = "Terminated" =>
              \/ watch' = "init" /\ daemon' = "none"
              \/ UNCHANGED <<addr, taskVars, ioVars, timerVars, chanVars,
                             runVars, histVars, totals>>
         ]_vars
    /\ [][(~DaemonAlive /\ DaemonAlive') =>
              /\ WatchRunning /\ daemon = "none"
              /\ watch' = "Ok" /\ spawned' = spawned + 1
         ]_vars

\* the daemon has terminated on the drop of its readers while a tick of its
\* schedule was ready: the tick stays unconsumed
C14_Witness ==
    /\ daemon = "Terminated" /\ err = NoError
    /\ at = "tick" /\ tickReady /\ backoff.ticks > 0 /\ ticksUsed = 1


\* C15 as stated: a reconnect call in progress is never abandoned; the
\* daemon exits on the drop of its readers only after the call has
\* completed.
C15_CallInFlightNotAbandoned ==
    (daemon = "Terminated" /\ err = NoError /\ at = "call") => rpc # "inflight"

\* C15 as amended: cancellation takes effect at the daemon's await points
\* only, the await of a reconnect call included.  With every reader dropped
\* while recover() awaits the call, the daemon is free to exit at once,
\* whether the call has completed or not; its only step is that exit, which
\* drops the call where it is: its result is never taken, and no call, tick
\* or publication follows.
C15_CallDroppedAtExit ==
    /\ [](daemon = "Recovering" /\ at = "call" /\ Closed =>
              ENABLED DaemonClosed)
    /\ [][(daemon = "Recovering" /\ at = "call" /\ Closed) =>
              /\ daemon' \in {"Recovering", "Terminated"}
              /\ daemon' = "Terminated" => rpc' = rpc
              /\ err' = NoError
              /\ UNCHANGED <<at, runVars, received, chanVars, published>>
         ]_vars

\* the daemon exited on the drop of its readers with its first reconnect
\* call still in flight
C15_Witness ==
    /\ daemon = "Terminated" /\ err = NoError /\ Closed
    /\ at = "call" /\ rpc = "inflight" /\ runCalls = 1


\* C16: Strategy::new(addr, rsp).  detect is Client when the response has no
\* protocol-detection field or no protocol inside it, and the response's
\* variant otherwise; target is Endpoint{addr} with the request's address
\* when the response has no target, no target kind, or an Endpoint whose
\* address is absent or cannot be parsed, and mirrors the response's variant
\* otherwise (Endpoint with its address, Concrete with its authority,
\* Logical); the snapshot carries the request's address.
C16_StrategyNewDefaults ==
    received # <<>> =>
        LET rsp == received[1].rsp
            unusable == rsp.kind = "Endpoint"
                        /\ rsp.eaddr \in {"absent", "unset", "invalid"}
        IN  /\ chan.addr = addr
            /\ rsp.detect \in {"absent", "unset"} => chan.detect = "Client"
            /\ rsp.detect \in {"Client", "Opaque"} => chan.detect = rsp.detect
            /\ (rsp.kind \in {"absent", "unset"} \/ unusable) =>
                  chan.target = [kind |-> "Endpoint", addr |-> addr,
                                 authority |-> ""]
            /\ (rsp.kind = "Endpoint" /\ ~unusable) =>
                  chan.target = [kind |-> "Endpoint", addr |-> rsp.eaddr,
                                 authority |-> ""]
            /\ rsp.kind = "Concrete" =>
                  /\ chan.target.kind = "Concrete"
                  /\ chan.target.authority = rsp.authority
            /\ rsp.kind = "Logical" => chan.target.kind = "Logical"

\* a snapshot built from a response without protocol detection whose
\* Endpoint target has an address that does not parse: Client, and the
\* request's own address
C16_Witness ==
    /\ received # <<>>
    /\ received[1].rsp.detect = "absent"
    /\ received[1].rsp.kind = "Endpoint" /\ received[1].rsp.eaddr = "invalid"
    /\ chan.detect = "Client"
    /\ chan.target.kind = "Endpoint" /\ chan.target.addr = addr


\* a step in which the task takes a response from a response stream
ResponseTaken == Len(received') = Len(received) + 1

\* C18: no snapshot is skipped by the writer.  Every response taken from a
\* response stream while a reader exists, the first response of a
\* reconnected stream included, has its snapshot published once, at the end
\* of what was published before; a publication that finds no reader alive
\* stores nothing and leaves the daemon in Streaming, with no error: it is
\* the drop signal, at the next poll, that ends the daemon.
C18_EveryResponsePublishedOnce ==
    /\ [](PublishedAsReceived)
    /\ [][(ResponseTaken /\ readers' > 0) =>
              LET v == StrategyNew(addr, received'[Len(received')].rsp)
              IN  /\ published' = Append(published, v)
                  /\ chan' = v
                  /\ version' = version + 1
         ]_vars
    /\ [][(ResponseTaken /\ readers' = 0) =>
              /\ published' = published /\ chan' = chan /\ version' = version
              /\ daemon' = "Streaming" /\ err' = NoError
         ]_vars

\* the daemon took a response whose publication found no reader alive; it is
\* still Streaming, with the seed of the channel as the only value published
C18_Witness ==
    /\ daemon = "Streaming" /\ err = NoError /\ readers = 0
    /\ Len(received) = 2 /\ Len(published) = 1
    /\ received[1].sent /\ ~received[2].sent


\* C19: within one run of recover() a reconnect call is started only by the
\* step that takes a tick of the schedule, one call per tick, the first call
\* after the first tick: the calls of the run are as many as the ticks
\* consumed and never more than the ticks of its schedule; and the run ends
\* with the first attempt whose stream yields a response.
C19_OneCallPerTick ==
    /\ [](InRecover =>
              /\ runCalls = ticksUsed
              /\ runCalls <= firstSched.ticks
              /\ at \in {"call", "first"} => runCalls >= 1)
    /\ [][(InRecover /\ rpc' = "inflight" /\ rpc # "inflight") =>
              /\ at = "tick" /\ tickReady
              /\ ticksUsed' = ticksUsed + 1
              /\ runCalls' = runCalls + 1
              /\ backoff'.ticks = backoff.ticks - 1
         ]_vars
    /\ [][(InRecover /\ ResponseTaken) =>
              /\ at = "first" /\ at' = "none" /\ rpc' = "none"
              /\ watch' # "recover" /\ daemon' = "Streaming"
         ]_vars

\* the daemon's recovery has consumed two ticks and made two reconnect
\* calls; the stream of the second one has a response ready
C19_Witness ==
    /\ daemon = "Recovering" /\ at = "first" /\ head.kind = "item"
    /\ ticksUsed = 2 /\ runCalls = 2 /\ firstSched.ticks = 2


\* C20: every Streaming -> Recovering transition starts a new run of
\* recover(): one consultation of the policy, no tick consumed and no call
\* made yet, and the schedule of the run is the one the policy hands out for
\* this failure.  Whatever earlier recoveries of the daemon consumed, every
\* schedule the policy can hand out is available to the new run, a full one
\* included, so the calls of a daemon are not bounded by one schedule.
C20_FreshScheduleEachRecovery ==
    /\ [][(daemon = "Streaming" /\ daemon' = "Recovering") =>
              /\ streamFails' = streamFails + 1
              /\ consults' = 1 /\ verdict' = "retry"
              /\ ticksUsed' = 0 /\ runCalls' = 0
              /\ firstSched' \in Backoffs /\ backoff' = firstSched'
              /\ at' = "tick" /\ ~tickReady'
         ]_vars
    /\ []((daemon = "Streaming" /\ ~Closed /\ head.kind \in {"end", "err"}) =>
              \A b \in Backoffs : ENABLED (BroadcastFailed /\ backoff' = b))

\* the second recovery of a daemon has consumed the two ticks of a full
\* schedule and made its second call, after a first recovery that had
\* consumed at least one tick to reconnect
C20_Witness ==
    /\ daemon = "Recovering" /\ streamFails = 2
    /\ firstSched.ticks = 2 /\ ticksUsed = 2 /\ runCalls = 2 /\ at = "call"

=============================================================================
